---- MODULE Spec2Model ----
(***************************************************************************)
(* The override workflow of app.py (Streamlit + Snowflake): the "Submit    *)
(* Updates" handler and its three steps                                    *)
(*   insert_into_target_table  (change detection + override insert),       *)
(*   insert_into_source_table  (join-based insert of the new Active row),  *)
(*   update_old_record         (flag the superseded row 'D').              *)
(* Tables are sequences of rows (SQL bags, insertion order kept as the     *)
(* row identity).  Every SQL statement is one atomic step.                 *)
(***************************************************************************)
EXTENDS Integers, Sequences, FiniteSets, TLC

VARIABLES
    cfg,              \* the override_ref row of the selected table (or its absence)
    source,           \* the source table: Seq of rows
    target,           \* the override (target) table: Seq of records
    pc,               \* per session: position in the script / handler
    source_df,        \* per session: snapshot of the Active rows (fetch_data)
    edited_data,      \* per session: the data_editor result
    changes_df,       \* per session: rows the change detector selected
    row_pos,          \* per session: position of the for loop over changes_df
    target_columns,   \* per session: result of the target introspection
    log,              \* per session: SQL statements issued by the current submit
    messages,         \* per session: st.info / st.error / st.success of the current submit
    last_update_time, \* st.session_state.last_update_time, per session
    origin,           \* history: for each source row, the row it was joined from (0: initial)
    written,          \* history: per session, target indices written by the current submit
    source_at_begin,  \* history: per session, the source table when the submit began
    target_at_begin,  \* history: per session, the override table when the submit began
    failures,         \* history: number of failed statements so far
    submits           \* history: number of submits started

vars == <<cfg, source, target, pc, source_df, edited_data, changes_df, row_pos,
          target_columns, log, messages, last_update_time, origin, written,
          source_at_begin, target_at_begin, failures, submits>>

----------------------------------------------------------------------------
(* Bounds of the model *)

MaxSubmits == 2

\* injected failures (WriteError, introspection error); failures the SQL text
\* itself forces are not limited by it
MaxFailures == 1

\* a submit is followed only from a snapshot of at most this many Active rows
MaxSnapshot == 2

Sessions == {"s1", "s2"}

\* the session that clicks when submits run one after another
SequentialSessions == {"s1"}

----------------------------------------------------------------------------
(* SQL / pandas values *)

\* A string is a sequence of one-character strings; a nullable string column
\* value is a record, so that NULL and '' are different values.
NullStr == [isnull |-> TRUE, str |-> <<>>]

Str(s) == [isnull |-> FALSE, str |-> s]

\* A nullable number (pandas float column): NaN is the missing value.
NaN == [isna |-> TRUE, num |-> 0]

Num(n) == [isna |-> FALSE, num |-> n]

Vals == {1, 2, 3}

Cells == {Num(n) : n \in Vals} \cup {NaN}

Dtypes == {"int64", "float64"}

DigitChars == <<"1", "2", "3", "4", "5", "6", "7", "8", "9">>

----------------------------------------------------------------------------
(* Value encoding of insert_into_target_table, and the SQL parser's reading *)

RECURSIVE Escape(_)
\* value.replace("'", "''")
Escape(s) ==
    IF s = <<>> THEN <<>>
    ELSE IF Head(s) = "'" THEN <<"'", "'">> \o Escape(Tail(s))
    ELSE <<Head(s)>> \o Escape(Tail(s))

\* lines 228-235: NULL for a missing value, a quoted literal for a string
SqlLiteral(value) ==
    IF value.isnull THEN <<"N", "U", "L", "L">>
    ELSE <<"'">> \o Escape(value.str) \o <<"'">>

\* f"{old_value}" / f"{new_value}": str() of a numpy scalar of the frame's dtype
NumberText(cell, dtype) ==
    IF cell.isna THEN <<"n", "a", "n">>
    ELSE IF dtype = "int64" THEN <<DigitChars[cell.num]>>
    ELSE <<DigitChars[cell.num], ".", "0">>

RECURSIVE WellQuoted(_)
\* inside a string literal every quote is doubled
WellQuoted(s) ==
    IF s = <<>> THEN TRUE
    ELSE IF Head(s) = "'"
         THEN Len(s) >= 2 /\ s[2] = "'" /\ WellQuoted(SubSeq(s, 3, Len(s)))
    ELSE WellQuoted(Tail(s))

RECURSIVE Unescape(_)
Unescape(s) ==
    IF s = <<>> THEN <<>>
    ELSE IF Head(s) = "'" THEN <<"'">> \o Unescape(SubSeq(s, 3, Len(s)))
    ELSE <<Head(s)>> \o Unescape(Tail(s))

\* the SQL parser accepts NULL or a well-formed string literal
IsStringLiteral(tok) ==
    \/ tok = <<"N", "U", "L", "L">>
    \/ /\ Len(tok) >= 2
       /\ tok[1] = "'"
       /\ tok[Len(tok)] = "'"
       /\ WellQuoted(SubSeq(tok, 2, Len(tok) - 1))

ParseStringLiteral(tok) ==
    IF tok = <<"N", "U", "L", "L">> THEN NullStr
    ELSE Str(Unescape(SubSeq(tok, 2, Len(tok) - 1)))

\* the SQL parser accepts d and d.0 as numbers; nan is an identifier, not a number
IsNumberLiteral(tok) ==
    \E n \in Vals : tok = <<DigitChars[n]>> \/ tok = <<DigitChars[n], ".", "0">>

ParseNumberLiteral(tok) ==
    Num(CHOOSE n \in Vals : tok = <<DigitChars[n]>> \/ tok = <<DigitChars[n], ".", "0">>)

----------------------------------------------------------------------------
(* Configuration (override_ref) and the tables *)

\* columns of the source table; AS_AT_DATE / AS_OF_DATE carry no decision
SourceTableColumns == <<"K1", "K2", "VAL", "RECORD_FLAG">>

\* columns of the override table that introspection returns when it works
TargetTableColumns == {"K1", "K2", "VAL_OLD", "VAL_NEW", "RECORD_FLAG"}

\* the configurations: a usable one, no row for the module, an editable
\* column the source table does not have, and an empty JOINING_KEYS string
Configs ==
    { [found |-> TRUE,  EDITABLE_COLUMN |-> "VAL",   JOINING_KEYS |-> <<"K1", "K2">>],
      [found |-> FALSE, EDITABLE_COLUMN |-> "VAL",   JOINING_KEYS |-> <<"K1", "K2">>],
      [found |-> TRUE,  EDITABLE_COLUMN |-> "PRICE", JOINING_KEYS |-> <<"K1", "K2">>],
      [found |-> TRUE,  EDITABLE_COLUMN |-> "VAL",   JOINING_KEYS |-> <<>>] }

\* line 156
editable_column == cfg.EDITABLE_COLUMN

\* line 157: ''.split(',') is [''], a list of one empty name, never an empty list
join_keys == IF cfg.JOINING_KEYS = <<>> THEN <<"">> ELSE cfg.JOINING_KEYS

InSeq(x, sq) == \E n \in 1..Len(sq) : sq[n] = x

SourceRow(k1, k2, v, flag) == [K1 |-> k1, K2 |-> k2, VAL |-> v, RECORD_FLAG |-> flag]

\* the natural keys of the initial source tables
InitialKeyPairs ==
    { << <<Str(<<"'">>), NullStr>>, <<Str(<<"X">>), Str(<<"X">>)>> >>,
      << <<NullStr, Str(<<"X">>)>>, <<Str(<<>>), Str(<<"X">>)>> >> }

\* initial source tables: one Active row per natural key
InitialSources ==
    { << SourceRow(kp[1][1], kp[1][2], v, "A"), SourceRow(kp[2][1], kp[2][2], Num(1), "A") >> :
        kp \in InitialKeyPairs, v \in {Num(1), NaN} }

\* initial source tables of the two-session runs: one natural key, Active
ConcurrentSources ==
    { << SourceRow(Str(<<"X">>), k2, Num(1), "A") >> : k2 \in {Str(<<"X">>), NullStr} }

\* fetch_data: SELECT * FROM source WHERE RECORD_FLAG = 'A' (idx: the row's identity)
RECURSIVE fetch_data(_, _)
fetch_data(tab, i) ==
    IF i > Len(tab) THEN <<>>
    ELSE IF tab[i].RECORD_FLAG = "A"
         THEN <<[idx |-> i, row |-> tab[i]]>> \o fetch_data(tab, i + 1)
    ELSE fetch_data(tab, i + 1)

\* dtype of the editable column of a frame read from the table
FrameDtype(cells) ==
    IF \E n \in 1..Len(cells) : cells[n].isna THEN "float64" ELSE "int64"

----------------------------------------------------------------------------
(* Change Detector *)

\* pandas elementwise !=  (line 200): NaN != NaN is True, numbers compare by value
PandasNe(a, b) == a.isna \/ b.isna \/ a.num # b.num

\* changes_df: positions of the snapshot whose editable cell the mask selects
ChangedPositions(df, edited) ==
    SelectSeq([n \in 1..Len(df) |-> n],
              LAMBDA n : PandasNe(edited.vals[n], df[n].row.VAL))

----------------------------------------------------------------------------
(* Override Recorder: one INSERT per row of changes_df *)

\* line 213: columns of source_df that the target table has, without the
\* editable column and the bookkeeping columns
CommonColumns(tcols) ==
    SelectSeq(SourceTableColumns,
              LAMBDA c : c \in tcols /\ c \notin {editable_column, "AS_AT_DATE", "RECORD_FLAG", "AS_OF_DATE"})

\* a slip in the VALUES list: the new value before the old one
InsertTargetSql_OldNewSwapped(df, edited, tcols, p) ==
    [ columns   |-> CommonColumns(tcols),
      values    |-> [n \in 1..Len(CommonColumns(tcols)) |->
                        SqlLiteral(df[p].row[CommonColumns(tcols)[n]])],
      old_value |-> NumberText(edited.vals[p], edited.dtype),
      new_value |-> NumberText(df[p].row.VAL, FrameDtype([n \in 1..Len(df) |-> df[n].row.VAL])) ]

\* lines 215-244: the literals of the INSERT statement for snapshot position p
InsertTargetSql(df, edited, tcols, p) ==
    [ columns   |-> CommonColumns(tcols),
      values    |-> [n \in 1..Len(CommonColumns(tcols)) |->
                        SqlLiteral(df[p].row[CommonColumns(tcols)[n]])],
      old_value |-> NumberText(df[p].row.VAL, FrameDtype([n \in 1..Len(df) |-> df[n].row.VAL])),
      new_value |-> NumberText(edited.vals[p], edited.dtype) ]

\* the statement compiles: a non-empty value list (an empty one leaves
\* "VALUES ( ,"), string literals well formed, OLD and NEW numeric literals
InsertTargetCompiles(sql) ==
    /\ Len(sql.values) > 0
    /\ \A n \in 1..Len(sql.values) : IsStringLiteral(sql.values[n])
    /\ IsNumberLiteral(sql.old_value)
    /\ IsNumberLiteral(sql.new_value)

ColumnValue(sql, c) ==
    IF InSeq(c, sql.columns)
    THEN ParseStringLiteral(sql.values[CHOOSE n \in 1..Len(sql.columns) : sql.columns[n] = c])
    ELSE NullStr

\* the record the INSERT stores (RECORD_FLAG 'O')
InsertedTargetRecord(sql) ==
    [ K1 |-> ColumnValue(sql, "K1"),
      K2 |-> ColumnValue(sql, "K2"),
      VAL_OLD |-> ParseNumberLiteral(sql.old_value),
      VAL_NEW |-> ParseNumberLiteral(sql.new_value),
      RECORD_FLAG |-> "O" ]

----------------------------------------------------------------------------
(* Source Mutator: the two statements *)

\* COALESCE(x, '')
Coalesce(v) == IF v.isnull THEN <<>> ELSE v.str

\* lines 283 and 298-301: COALESCE(tgt.key, '') = COALESCE(src.key, '') for every key
JoinCondition(tgt, src) ==
    \A n \in 1..Len(join_keys) :
        Coalesce(tgt[join_keys[n]]) = Coalesce(src[join_keys[n]])

\* SQL = on numbers: never true of a NULL
SqlEq(a, b) == ~a.isna /\ ~b.isna /\ a.num = b.num

\* the ON / WHERE conditions shared by both statements (lines 283-285, 307-309)
Matches(tgt, src) ==
    /\ JoinCondition(tgt, src)
    /\ SqlEq(tgt.VAL, src.VAL_OLD)
    /\ tgt.RECORD_FLAG = "A"

\* both statements name every join key as a column; '' is not a column
MutatorCompiles ==
    \A n \in 1..Len(join_keys) : InSeq(join_keys[n], SourceTableColumns)

\* the (override record, source row) pairs of the join, in table order
JoinPairs(src_tab, tgt_tab) ==
    SelectSeq([n \in 1..(Len(tgt_tab) * Len(src_tab)) |->
                  [j |-> ((n - 1) \div Len(src_tab)) + 1, i |-> ((n - 1) % Len(src_tab)) + 1]],
              LAMBDA pr : Matches(src_tab[pr.i], tgt_tab[pr.j]))

NewSourceRow_FlaggedDeprecated(ovr) == SourceRow(ovr.K1, ovr.K2, ovr.VAL_NEW, "D")

\* lines 273-286: one new Active row per joined pair, its columns taken from
\* the override record, its editable value the record's _NEW
NewSourceRow(ovr) == SourceRow(ovr.K1, ovr.K2, ovr.VAL_NEW, "A")

InsertedSourceRows(src_tab, tgt_tab) ==
    [n \in 1..Len(JoinPairs(src_tab, tgt_tab)) |->
        NewSourceRow(tgt_tab[JoinPairs(src_tab, tgt_tab)[n].j])]

InsertedOrigins(src_tab, tgt_tab) ==
    [n \in 1..Len(JoinPairs(src_tab, tgt_tab)) |-> JoinPairs(src_tab, tgt_tab)[n].i]

\* lines 303-310: SET record_flag = 'D' on every source row some override record matches
DemotedRow(row) == [row EXCEPT !.RECORD_FLAG = "D"]

\* a slip in the statement: the superseded rows deleted instead of flagged
UpdatedSource_DeletesOld(src_tab, tgt_tab) ==
    SelectSeq(src_tab, LAMBDA row : ~\E j \in 1..Len(tgt_tab) : Matches(row, tgt_tab[j]))

\* a slip in the statement: the keys compared with =, which is never true of a NULL
UpdatedSource_PlainKeyEquality(src_tab, tgt_tab) ==
    [i \in 1..Len(src_tab) |->
        IF \E j \in 1..Len(tgt_tab) :
              /\ \A n \in 1..Len(join_keys) :
                     /\ ~src_tab[i][join_keys[n]].isnull
                     /\ ~tgt_tab[j][join_keys[n]].isnull
                     /\ src_tab[i][join_keys[n]].str = tgt_tab[j][join_keys[n]].str
              /\ SqlEq(src_tab[i].VAL, tgt_tab[j].VAL_OLD)
              /\ src_tab[i].RECORD_FLAG = "A"
        THEN DemotedRow(src_tab[i])
        ELSE src_tab[i]]

UpdatedSource(src_tab, tgt_tab) ==
    [i \in 1..Len(src_tab) |->
        IF \E j \in 1..Len(tgt_tab) : Matches(src_tab[i], tgt_tab[j])
        THEN DemotedRow(src_tab[i])
        ELSE src_tab[i]]

----------------------------------------------------------------------------
(* The script and the Submit Updates handler *)

NoFrame == [dtype |-> "float64", vals |-> <<>>]

\* the state after the script's first run over one of the given source tables
InitFrom(sources) ==
    /\ cfg \in Configs
    /\ source \in sources
    /\ target = <<>>
    /\ pc = [s \in Sessions |-> "idle"]
    /\ source_df = [s \in Sessions |-> <<>>]
    /\ edited_data = [s \in Sessions |-> NoFrame]
    /\ changes_df = [s \in Sessions |-> <<>>]
    /\ row_pos = [s \in Sessions |-> 0]
    /\ target_columns = [s \in Sessions |-> {}]
    /\ log = [s \in Sessions |-> <<>>]
    /\ messages = [s \in Sessions |-> {}]
    /\ last_update_time = [s \in Sessions |-> 0]
    /\ origin = [i \in 1..Len(source) |-> 0]
    /\ written = [s \in Sessions |-> {}]
    /\ source_at_begin = [s \in Sessions |-> <<>>]
    /\ target_at_begin = [s \in Sessions |-> <<>>]
    /\ failures = 0
    /\ submits = 0

Init == InitFrom(InitialSources)

AtRest(s) == pc[s] \in {"idle", "done", "stopped"}

\* the checks of a script run that end in st.stop() before the button
\* (lines 113-115, 166-168, 177-179)
ScriptStops ==
    \/ ~cfg.found
    \/ fetch_data(source, 1) = <<>>
    \/ ~InSeq(editable_column, SourceTableColumns)

\* a script run that stops before the Submit Updates button
PageStop(s) ==
    /\ pc[s] \in {"idle", "done"}
    /\ ScriptStops
    /\ pc' = [pc EXCEPT ![s] = "stopped"]
    /\ UNCHANGED <<cfg, source, target, source_df, edited_data, changes_df, row_pos,
                   target_columns, log, messages, last_update_time, origin, written,
                   source_at_begin, target_at_begin, failures, submits>>

\* the frames the data editor can return for a snapshot: any cell of the
\* editable column set to any number or cleared; an int64 frame has no NaN
EditedFrames(df) ==
    { f \in [dtype : Dtypes, vals : [1..Len(df) -> Cells]] :
        f.dtype = "int64" => \A n \in 1..Len(df) : ~f.vals[n].isna }

\* the script run of a click on Submit Updates: the snapshot is fetched
\* (line 165), the editor returns the edited frame (line 182), the handler starts
BeginSubmit(s) ==
    /\ pc[s] \in {"idle", "done"}
    /\ submits < MaxSubmits
    /\ ~ScriptStops
    /\ Len(fetch_data(source, 1)) <= MaxSnapshot
    /\ \E f \in EditedFrames(fetch_data(source, 1)) : edited_data' = [edited_data EXCEPT ![s] = f]
    /\ source_df' = [source_df EXCEPT ![s] = fetch_data(source, 1)]
    /\ changes_df' = [changes_df EXCEPT ![s] = <<>>]
    /\ row_pos' = [row_pos EXCEPT ![s] = 0]
    /\ target_columns' = [target_columns EXCEPT ![s] = {}]
    /\ log' = [log EXCEPT ![s] = <<>>]
    /\ messages' = [messages EXCEPT ![s] = {}]
    /\ written' = [written EXCEPT ![s] = {}]
    /\ source_at_begin' = [source_at_begin EXCEPT ![s] = source]
    /\ target_at_begin' = [target_at_begin EXCEPT ![s] = target]
    /\ submits' = submits + 1
    /\ pc' = [pc EXCEPT ![s] = "detect"]
    /\ UNCHANGED <<cfg, source, target, last_update_time, origin, failures>>

\* a click while no other session is inside its handler
Submit(s) ==
    /\ \A t \in Sessions \ {s} : AtRest(t)
    /\ BeginSubmit(s)

\* lines 199-204: the mask, and the early return when nothing is selected
Detect(s) ==
    /\ pc[s] = "detect"
    /\ changes_df' = [changes_df EXCEPT ![s] = ChangedPositions(source_df[s], edited_data[s])]
    /\ IF ChangedPositions(source_df[s], edited_data[s]) = <<>>
       THEN /\ messages' = [messages EXCEPT ![s] = @ \cup {"info: no changes detected"}]
            /\ pc' = [pc EXCEPT ![s] = "source_columns"]
       ELSE /\ messages' = messages
            /\ pc' = [pc EXCEPT ![s] = "target_columns"]
    /\ UNCHANGED <<cfg, source, target, source_df, edited_data, row_pos, target_columns,
                   log, last_update_time, origin, written, source_at_begin,
                   target_at_begin, failures, submits>>

\* an injected failure is possible while the bound allows it
MayFail == failures < MaxFailures

\* lines 206-210: the target table's columns; the query may raise, or find no column
SelectTargetColumns(s) ==
    /\ pc[s] = "target_columns"
    /\ log' = [log EXCEPT ![s] = Append(@, "SELECT target columns")]
    /\ \/ /\ target_columns' = [target_columns EXCEPT ![s] = TargetTableColumns]
          /\ row_pos' = [row_pos EXCEPT ![s] = 1]
          /\ pc' = [pc EXCEPT ![s] = "insert_target"]
          /\ UNCHANGED <<messages, failures>>
       \/ /\ MayFail
          /\ target_columns' = [target_columns EXCEPT ![s] = {}]
          /\ row_pos' = [row_pos EXCEPT ![s] = 1]
          /\ pc' = [pc EXCEPT ![s] = "insert_target"]
          /\ failures' = failures + 1
          /\ UNCHANGED messages
       \/ /\ MayFail
          /\ messages' = [messages EXCEPT ![s] = @ \cup {"error: inserting into target (columns query)"}]
          /\ pc' = [pc EXCEPT ![s] = "source_columns"]
          /\ failures' = failures + 1
          /\ UNCHANGED <<target_columns, row_pos>>
    /\ UNCHANGED <<cfg, source, target, source_df, edited_data, changes_df,
                   last_update_time, origin, written, source_at_begin,
                   target_at_begin, submits>>

TargetAfterInsert_Overwrites(tab, rec) == <<rec>>

\* lines 239-246: the statement is INSERT INTO ... VALUES, which adds one row to
\* the target table and touches no other
TargetAfterInsert(tab, rec) == Append(tab, rec)

AfterInsertedRow_LeavesLoop(pos, n) == "source_columns"

\* lines 215, 250: the for loop goes on to the next changed row and ends after
\* the last one
AfterInsertedRow(pos, n) == IF pos = n THEN "source_columns" ELSE "insert_target"

\* lines 215-253: the INSERT of one changed row; a failure is re-raised, caught
\* by the outer except, and ends the loop
InsertTarget(s) ==
    /\ pc[s] = "insert_target"
    /\ log' = [log EXCEPT ![s] = Append(@, "INSERT target")]
    /\ LET sql == InsertTargetSql(source_df[s], edited_data[s], target_columns[s],
                                  changes_df[s][row_pos[s]])
       IN \/ /\ InsertTargetCompiles(sql)
             /\ target' = TargetAfterInsert(target, InsertedTargetRecord(sql))
             /\ written' = [written EXCEPT ![s] = @ \cup {Len(target) + 1}]
             /\ row_pos' = [row_pos EXCEPT ![s] = @ + 1]
             /\ pc' = [pc EXCEPT ![s] = AfterInsertedRow(row_pos[s], Len(changes_df[s]))]
             /\ UNCHANGED <<messages, failures>>
          \/ /\ ~InsertTargetCompiles(sql) \/ MayFail
             /\ messages' = [messages EXCEPT ![s] = @ \cup {"error: inserting record",
                                                            "error: inserting into target (insert)"}]
             /\ failures' = failures + 1
             /\ pc' = [pc EXCEPT ![s] = "source_columns"]
             /\ UNCHANGED <<target, written, row_pos>>
    /\ UNCHANGED <<cfg, source, source_df, edited_data, changes_df, target_columns,
                   last_update_time, origin, source_at_begin, target_at_begin, submits>>

\* lines 257-269: the source table's columns; the query may raise (caught at
\* line 291) or find no column (the early return of line 269); either way the
\* handler goes on to update_old_record
SelectSourceColumns(s) ==
    /\ pc[s] = "source_columns"
    /\ log' = [log EXCEPT ![s] = Append(@, "SELECT source columns")]
    /\ \/ /\ pc' = [pc EXCEPT ![s] = "insert_source"]
          /\ UNCHANGED <<messages, failures>>
       \/ /\ MayFail
          /\ messages' = [messages EXCEPT ![s] = @ \cup {"error: no common columns"}]
          /\ failures' = failures + 1
          /\ pc' = [pc EXCEPT ![s] = "update_old"]
       \/ /\ MayFail
          /\ messages' = [messages EXCEPT ![s] = @ \cup {"error: inserting into source (columns query)"}]
          /\ failures' = failures + 1
          /\ pc' = [pc EXCEPT ![s] = "update_old"]
    /\ UNCHANGED <<cfg, source, target, source_df, edited_data, changes_df, row_pos,
                   target_columns, last_update_time, origin, written, source_at_begin,
                   target_at_begin, submits>>

\* lines 271-292: INSERT INTO source SELECT ... FROM target JOIN source
InsertSource(s) ==
    /\ pc[s] = "insert_source"
    /\ log' = [log EXCEPT ![s] = Append(@, "INSERT source")]
    /\ \/ /\ MutatorCompiles
          /\ source' = source \o InsertedSourceRows(source, target)
          /\ origin' = origin \o InsertedOrigins(source, target)
          /\ UNCHANGED <<messages, failures>>
       \/ /\ ~MutatorCompiles \/ MayFail
          /\ messages' = [messages EXCEPT ![s] = @ \cup {"error: inserting into source (insert)"}]
          /\ failures' = failures + 1
          /\ UNCHANGED <<source, origin>>
    /\ pc' = [pc EXCEPT ![s] = "update_old"]
    /\ UNCHANGED <<cfg, target, source_df, edited_data, changes_df, row_pos,
                   target_columns, last_update_time, written, source_at_begin,
                   target_at_begin, submits>>

\* lines 295-317: UPDATE source SET record_flag = 'D' FROM target WHERE ...
update_old_record(s) ==
    /\ pc[s] = "update_old"
    /\ log' = [log EXCEPT ![s] = Append(@, "UPDATE source")]
    /\ \/ /\ MutatorCompiles
          /\ source' = UpdatedSource(source, target)
          /\ UNCHANGED <<messages, failures>>
       \/ /\ ~MutatorCompiles \/ MayFail
          /\ messages' = [messages EXCEPT ![s] = @ \cup {"error: updating old records"}]
          /\ failures' = failures + 1
          /\ UNCHANGED source
    /\ pc' = [pc EXCEPT ![s] = "finish"]
    /\ UNCHANGED <<cfg, target, source_df, edited_data, changes_df, row_pos,
                   target_columns, last_update_time, origin, written, source_at_begin,
                   target_at_begin, submits>>

\* lines 328-331: the time of the update and the success message, whatever happened
Finish(s) ==
    /\ pc[s] = "finish"
    /\ last_update_time' = [last_update_time EXCEPT ![s] = submits]
    /\ messages' = [messages EXCEPT ![s] = @ \cup {"success: data updated"}]
    /\ pc' = [pc EXCEPT ![s] = "done"]
    /\ UNCHANGED <<cfg, source, target, source_df, edited_data, changes_df, row_pos,
                   target_columns, log, origin, written, source_at_begin,
                   target_at_begin, failures, submits>>

Next ==
    \E s \in SequentialSessions :
        \/ PageStop(s)
        \/ Submit(s)
        \/ Detect(s)
        \/ SelectTargetColumns(s)
        \/ InsertTarget(s)
        \/ SelectSourceColumns(s)
        \/ InsertSource(s)
        \/ update_old_record(s)
        \/ Finish(s)

\* submits run one after another
Spec == Init /\ [][Next]_vars

\* two browser sessions on the same tables: each script run is its own thread
\* with its own Snowflake statements, and nothing orders the statements of one
\* handler against those of the other
NextConcurrent ==
    \E s \in Sessions :
        \/ PageStop(s)
        \/ BeginSubmit(s)
        \/ Detect(s)
        \/ SelectTargetColumns(s)
        \/ InsertTarget(s)
        \/ SelectSourceColumns(s)
        \/ InsertSource(s)
        \/ update_old_record(s)
        \/ Finish(s)

InitConcurrent == InitFrom(ConcurrentSources)

SpecConcurrent == InitConcurrent /\ [][NextConcurrent]_vars

----------------------------------------------------------------------------
(* Vocabulary of the properties *)

\* the natural key of a row or record, compared null-safe: NULL equals only NULL
SameKey(a, b) == a.K1 = b.K1 /\ a.K2 = b.K2

IsActive(row) == row.RECORD_FLAG = "A"

\* the configuration errors: no row for the module, an editable column the
\* source table does not have, an empty joining-key set
ConfigurationError ==
    \/ ~cfg.found
    \/ ~InSeq(editable_column, SourceTableColumns)
    \/ cfg.JOINING_KEYS = <<>>

\* no handler is running
Quiescent == \A s \in Sessions : AtRest(s)

ErrorMessages ==
    { "error: inserting into target (columns query)", "error: inserting record",
      "error: inserting into target (insert)", "error: no common columns",
      "error: inserting into source (columns query)",
      "error: inserting into source (insert)", "error: updating old records" }

\* the handler of s has ended and none of its statements failed
SubmitSucceeded(s) == pc[s] = "done" /\ messages[s] \cap ErrorMessages = {}

\* difference by value: missing equals missing, numbers by their value
ValueDiffers(a, b) == a.isna # b.isna \/ (~a.isna /\ ~b.isna /\ a.num # b.num)

\* positions of the snapshot of s whose editable value was edited to another value
EditedPositions(s) ==
    { p \in 1..Len(source_df[s]) :
        ValueDiffers(edited_data[s].vals[p], source_df[s][p].row.VAL) }

\* no other natural key of the source table is taken for the key of row r by
\* the COALESCE comparison (NULL against '')
Unaliased(r) ==
    \A i \in 1..Len(source) : JoinCondition(source[i], r) => SameKey(source[i], r)

\* the Active rows of the natural key of r
ActiveOfKey(r) == { i \in 1..Len(source) : IsActive(source[i]) /\ SameKey(source[i], r) }

----------------------------------------------------------------------------
(* C1 *)

\* C1 (as claimed): whenever no handler is running and no statement has ever
\* failed, every natural key has at most one source row with RECORD_FLAG = 'A'.
C1_AtMostOneActive ==
    (Quiescent /\ failures = 0) =>
        \A i, j \in 1..Len(source) :
            (IsActive(source[i]) /\ IsActive(source[j]) /\ SameKey(source[i], source[j]))
                => i = j

\* the same, for the keys that the COALESCE comparison confuses with no other key
C1_AtMostOneActiveUnaliased ==
    (Quiescent /\ failures = 0 /\ cfg.JOINING_KEYS # <<>>) =>
        \A i, j \in 1..Len(source) :
            (IsActive(source[i]) /\ IsActive(source[j]) /\ SameKey(source[i], source[j])
               /\ Unaliased(source[i]))
                => i = j

----------------------------------------------------------------------------
(* C2 *)

\* C2 (as claimed): when a submit all of whose statements succeeded changed the
\* Active row of a key from OLD to NEW (no statement having failed before),
\* the key has exactly one Active row, that row holds NEW, and the row that
\* held OLD is Deprecated.  Stated for keys the COALESCE comparison confuses
\* with no other key, so that a violation is due to the value NEW alone.
C2_ExactlyOneActiveHoldingNew ==
    \A s \in Sessions :
        (SubmitSucceeded(s) /\ failures = 0) =>
            \A p \in EditedPositions(s) :
                Unaliased(source_df[s][p].row) =>
                    /\ Cardinality(ActiveOfKey(source_df[s][p].row)) = 1
                    /\ \A i \in ActiveOfKey(source_df[s][p].row) :
                           source[i].VAL = edited_data[s].vals[p]
                    /\ source[source_df[s][p].idx].RECORD_FLAG = "D"

\* the same, for a NEW that is the OLD of no override record of the key
C2_FreshNew ==
    \A s \in Sessions :
        (SubmitSucceeded(s) /\ failures = 0) =>
            \A p \in EditedPositions(s) :
                (/\ Unaliased(source_df[s][p].row)
                 /\ \A j \in 1..Len(target) :
                        SameKey(target[j], source_df[s][p].row)
                            => target[j].VAL_OLD # edited_data[s].vals[p]) =>
                    /\ Cardinality(ActiveOfKey(source_df[s][p].row)) = 1
                    /\ \A i \in ActiveOfKey(source_df[s][p].row) :
                           source[i].VAL = edited_data[s].vals[p]
                    /\ source[source_df[s][p].idx].RECORD_FLAG = "D"

----------------------------------------------------------------------------
(* C3 *)

MutatorFailed(s) ==
    messages[s] \cap { "error: no common columns",
                       "error: inserting into source (columns query)",
                       "error: inserting into source (insert)",
                       "error: updating old records" } # {}

\* the source-table flip of an override record: a row of its key holding NEW
\* is Active and no row of its key holding OLD is Active
Flipped(ovr) ==
    /\ \E i \in 1..Len(source) :
          SameKey(source[i], ovr) /\ IsActive(source[i]) /\ source[i].VAL = ovr.VAL_NEW
    /\ \A i \in 1..Len(source) :
          (SameKey(source[i], ovr) /\ IsActive(source[i])) => source[i].VAL # ovr.VAL_OLD

\* C3 (as claimed): when a handler has ended and one of its Source Mutator
\* steps failed (under a configuration without error), every override record
\* it wrote is either gone from the override table or has its source-table flip.
C3_NoOverrideWithoutFlip ==
    \A s \in Sessions :
        (pc[s] = "done" /\ MutatorFailed(s) /\ ~ConfigurationError) =>
            \A j \in written[s] : j > Len(target) \/ Flipped(target[j])

----------------------------------------------------------------------------
(* C4 *)

\* the edited frame of s equals its snapshot in the editable column
UneditedSubmit(s) ==
    /\ pc[s] \notin {"idle", "stopped"}
    /\ \A p \in 1..Len(source_df[s]) : edited_data[s].vals[p] = source_df[s][p].row.VAL

WriteStatements == {"INSERT target", "INSERT source", "UPDATE source"}

\* C4 (as claimed): a submit whose edited frame equals its snapshot in the
\* editable column sends no INSERT and no UPDATE statement (under a
\* configuration without error).
C4_NoWriteWithoutEdit ==
    \A s \in Sessions :
        (UneditedSubmit(s) /\ ~ConfigurationError) =>
            \A n \in 1..Len(log[s]) : log[s][n] \notin WriteStatements

----------------------------------------------------------------------------
(* C6 *)

\* C6 (as claimed): once the change detector has run, the rows it selected are
\* exactly the rows whose editable value differs by value between the snapshot
\* and the edited frame (missing equals missing, 5 equals 5.0).
C6_DetectsExactlyValueChanges ==
    \A s \in Sessions :
        pc[s] \notin {"idle", "stopped", "detect"} =>
            \A p \in 1..Len(source_df[s]) :
                InSeq(p, changes_df[s]) <=> p \in EditedPositions(s)

\* the same, for rows whose value is missing in neither frame
C6_DetectsValueChangesOfNumbers ==
    \A s \in Sessions :
        pc[s] \notin {"idle", "stopped", "detect"} =>
            \A p \in 1..Len(source_df[s]) :
                (~edited_data[s].vals[p].isna /\ ~source_df[s][p].row.VAL.isna) =>
                    (InSeq(p, changes_df[s]) <=> p \in EditedPositions(s))

----------------------------------------------------------------------------
(* C5 *)

\* a step keeps every source row, with its key and its editable value, and
\* changes a flag only from 'A' to 'D'
SourceRowsKept ==
    \A i \in 1..Len(source) :
        /\ i <= Len(source')
        /\ SameKey(source'[i], source[i])
        /\ source'[i].VAL = source[i].VAL
        /\ \/ source'[i].RECORD_FLAG = source[i].RECORD_FLAG
           \/ source[i].RECORD_FLAG = "A" /\ source'[i].RECORD_FLAG = "D"

\* after a submit all of whose statements succeeded, the row that held OLD
\* is in the table, with its key and OLD, flagged 'D'
OldRowsDeprecated ==
    \A s \in Sessions :
        SubmitSucceeded(s) =>
            \A p \in EditedPositions(s) :
                /\ source_df[s][p].idx <= Len(source)
                /\ source[source_df[s][p].idx] = DemotedRow(source_df[s][p].row)

\* C5: no step deletes a source row or changes its key or editable value, a
\* flag only ever goes from 'A' to 'D', and after every successful submit the
\* row that held the OLD value is still there, flagged 'D'.
C5_HistoryPreserved == [][SourceRowsKept]_vars /\ []OldRowsDeprecated

\* a successful submit has inserted a new row and flagged the edited row 'D'
C5_Witness ==
    \E s \in Sessions :
        /\ SubmitSucceeded(s)
        /\ Len(source) > Len(source_at_begin[s])
        /\ \E p \in EditedPositions(s) :
              /\ source_at_begin[s][source_df[s][p].idx].RECORD_FLAG = "A"
              /\ source[source_df[s][p].idx].RECORD_FLAG = "D"

----------------------------------------------------------------------------
(* C7 *)

\* C7 (as claimed): when a successful submit edits a row that an earlier
\* submit wrote (v1, written when the row holding v0 was edited) to v2, it
\* flags the v1 row 'D', leaves the v0 row as it was, and the row it inserts
\* for v2 is Active.  Stated for keys the COALESCE comparison confuses with
\* no other key.
C7_SecondEditDemotesFirstEditsRow ==
    \A s \in Sessions :
        (SubmitSucceeded(s) /\ failures = 0) =>
            \A p \in EditedPositions(s) :
                (origin[source_df[s][p].idx] > 0 /\ Unaliased(source_df[s][p].row)) =>
                    /\ source[source_df[s][p].idx].RECORD_FLAG = "D"
                    /\ source[origin[source_df[s][p].idx]]
                          = source_at_begin[s][origin[source_df[s][p].idx]]
                    /\ \E m \in (Len(source_at_begin[s]) + 1)..Len(source) :
                          /\ SameKey(source[m], source_df[s][p].row)
                          /\ source[m].VAL = edited_data[s].vals[p]
                          /\ IsActive(source[m])

\* the same, for a v2 other than v0
C7_SecondEditToThirdValue ==
    \A s \in Sessions :
        (SubmitSucceeded(s) /\ failures = 0) =>
            \A p \in EditedPositions(s) :
                (/\ origin[source_df[s][p].idx] > 0
                 /\ Unaliased(source_df[s][p].row)
                 /\ source[origin[source_df[s][p].idx]].VAL # edited_data[s].vals[p]) =>
                    /\ source[source_df[s][p].idx].RECORD_FLAG = "D"
                    /\ source[origin[source_df[s][p].idx]]
                          = source_at_begin[s][origin[source_df[s][p].idx]]
                    /\ \E m \in (Len(source_at_begin[s]) + 1)..Len(source) :
                          /\ SameKey(source[m], source_df[s][p].row)
                          /\ source[m].VAL = edited_data[s].vals[p]
                          /\ IsActive(source[m])

----------------------------------------------------------------------------
(* C8 *)

\* the Override Recorder of s has ended without an error
RecorderSucceeded(s) ==
    /\ pc[s] \in {"source_columns", "insert_source", "update_old", "finish", "done"}
    /\ messages[s] \cap { "error: inserting into target (columns query)",
                          "error: inserting record",
                          "error: inserting into target (insert)" } = {}

\* the edited positions of s, in snapshot order
EditedSeq(s) ==
    SelectSeq([n \in 1..Len(source_df[s]) |-> n], LAMBDA n : n \in EditedPositions(s))

\* the override record of an edit: the row's key, its value in the snapshot
\* as OLD, its value in the edited frame as NEW
ExpectedRecord(s, p) ==
    [ K1 |-> source_df[s][p].row.K1,
      K2 |-> source_df[s][p].row.K2,
      VAL_OLD |-> source_df[s][p].row.VAL,
      VAL_NEW |-> edited_data[s].vals[p],
      RECORD_FLAG |-> "O" ]

\* C8: when the Override Recorder of a submit has ended without an error, the
\* override table is what it was at the start of the submit followed by one
\* record per row whose editable value was edited, each with that row's key,
\* its snapshot value as OLD and its edited value as NEW, and nothing else.
C8_OneRecordPerChangedRow ==
    \A s \in Sessions :
        RecorderSucceeded(s) =>
            target = target_at_begin[s] \o
                     [k \in 1..Len(EditedSeq(s)) |-> ExpectedRecord(s, EditedSeq(s)[k])]

\* the Recorder wrote a record for the one edited row of a two-row snapshot,
\* a row whose key holds a quote and a NULL
C8_Witness ==
    \E s \in Sessions :
        /\ RecorderSucceeded(s)
        /\ Len(source_df[s]) = 2
        /\ EditedPositions(s) = {1}
        /\ source_df[s][1].row.K1 = Str(<<"'">>)
        /\ source_df[s][1].row.K2 = NullStr
        /\ Len(target) = Len(target_at_begin[s]) + 1

\* the Recorder wrote two records in one submit
C8_WitnessTwoRows ==
    \E s \in Sessions :
        /\ RecorderSucceeded(s)
        /\ Cardinality(EditedPositions(s)) = 2
        /\ Len(target) = Len(target_at_begin[s]) + 2

----------------------------------------------------------------------------
(* C9 *)

\* C9 (as claimed): under a configuration error the override table stays
\* empty, no source row is inserted and none is flagged 'D'.
C9_NoWriteUnderConfigurationError ==
    ConfigurationError =>
        /\ target = <<>>
        /\ \A i \in 1..Len(source) : origin[i] = 0 /\ IsActive(source[i])

\* the same, without the empty joining-key set
C9_NoWriteWithoutConfigurationRow ==
    (~cfg.found \/ ~InSeq(editable_column, SourceTableColumns)) =>
        /\ target = <<>>
        /\ \A i \in 1..Len(source) : origin[i] = 0 /\ IsActive(source[i])
        /\ \A s \in Sessions : log[s] = <<>>

----------------------------------------------------------------------------
(* C10 *)

\* the columns of the override table, or of the source table, could not be
\* enumerated in the submit of s: the query raised or returned no column
IntrospectionFailed(s) ==
    \/ "error: inserting into target (columns query)" \in messages[s]
    \/ /\ InSeq("SELECT target columns", log[s])
       /\ pc[s] # "target_columns"
       /\ target_columns[s] = {}
    \/ "error: no common columns" \in messages[s]
    \/ "error: inserting into source (columns query)" \in messages[s]

\* C10 (as claimed): a submit in which schema introspection failed (under a
\* configuration without error) has, when it ends, inserted nothing into the
\* override table and has neither inserted nor updated a source row.
C10_NoWriteAfterIntrospectionFailure ==
    \A s \in Sessions :
        (pc[s] = "done" /\ IntrospectionFailed(s) /\ ~ConfigurationError) =>
            /\ target = target_at_begin[s]
            /\ source = source_at_begin[s]

----------------------------------------------------------------------------
(* C11 *)

\* the submit of s found no changed row
NoChangeReported(s) == "info: no changes detected" \in messages[s]

\* the handler of s reported success
SuccessReported(s) == "success: data updated" \in messages[s]

\* C11 (as claimed): a submit in which no row changed reports that and does not
\* also report success, and it leaves last_update_time as it was (under a
\* configuration without error, no statement failing).
C11_NoChangeIsNotSuccess ==
    \A s \in Sessions :
        (/\ pc[s] = "done"
         /\ NoChangeReported(s)
         /\ messages[s] \cap ErrorMessages = {}
         /\ ~ConfigurationError) =>
            /\ ~SuccessReported(s)
            /\ last_update_time[s] # submits

----------------------------------------------------------------------------
(* C12 *)

\* C12 (as claimed): a submit that changed rows and in which a step failed does
\* not report success (under a configuration without error).
C12_NoSuccessAfterFailedStep ==
    \A s \in Sessions :
        (/\ pc[s] = "done"
         /\ ~NoChangeReported(s)
         /\ messages[s] \cap ErrorMessages # {}
         /\ ~ConfigurationError) => ~SuccessReported(s)

----------------------------------------------------------------------------
(* C13 *)

\* every override record stays where it is and as it is
OverrideRecordsKept ==
    /\ Len(target') >= Len(target)
    /\ \A j \in 1..Len(target) : target'[j] = target[j]

\* C13: the override table is append-only: no step of any submit removes an
\* override record or changes its key, its OLD or its NEW value.
C13_OverrideAppendOnly == [][OverrideRecordsKept]_vars

\* a second submit has added a record to a table that held one and has run its
\* source insert and its demote update
C13_Witness ==
    \E s \in Sessions :
        /\ pc[s] = "done"
        /\ Len(target_at_begin[s]) >= 1
        /\ Len(target) > Len(target_at_begin[s])
        /\ InSeq("INSERT source", log[s])
        /\ InSeq("UPDATE source", log[s])
        /\ source # source_at_begin[s]

----------------------------------------------------------------------------
(* C14 *)

\* the submits of s and t are both under way on source row i: both read it
\* as Active, and each has recorded an override of it, from the same OLD (the
\* row's value) to a different NEW; a and b are the two records
Racing(s, t, a, b, i) ==
    /\ s # t
    /\ a \in written[s] /\ b \in written[t]
    /\ \E p \in 1..Len(source_df[s]) : source_df[s][p].idx = i
    /\ \E q \in 1..Len(source_df[t]) : source_df[t][q].idx = i
    /\ IsActive(source[i])
    /\ SameKey(target[a], source[i]) /\ SameKey(target[b], source[i])
    /\ SqlEq(source[i].VAL, target[a].VAL_OLD)
    /\ target[b].VAL_OLD = target[a].VAL_OLD
    /\ target[b].VAL_NEW # target[a].VAL_NEW

\* the INSERT ... SELECT of s is executed in this step
SourceInsertExecuted(s) ==
    /\ pc[s] = "insert_source"
    /\ pc'[s] = "update_old"
    /\ failures' = failures

\* the source insert of one of two racing submits adds an Active row for each
\* of the two override records
RacingInsertAddsBoth ==
    \A s \in Sessions, t \in Sessions :
        \A a \in 1..Len(target), b \in 1..Len(target), i \in 1..Len(source) :
            (Racing(s, t, a, b, i) /\ SourceInsertExecuted(s)) =>
                \E m \in (Len(source) + 1)..Len(source'), n \in (Len(source) + 1)..Len(source') :
                    /\ IsActive(source'[m]) /\ IsActive(source'[n])
                    /\ SameKey(source'[m], source[i]) /\ SameKey(source'[n], source[i])
                    /\ source'[m].VAL = target[a].VAL_NEW
                    /\ source'[n].VAL = target[b].VAL_NEW

\* C14: when two submits taken from the same Active row (same OLD, different
\* NEW) have both recorded their override before one of them runs its source
\* insert, that insert leaves the key with two new Active rows, one per NEW.
C14_RaceMakesTwoActive == [][RacingInsertAddsBoth]_vars

\* both submits have ended, no statement failed, and the key they both edited
\* has two Active rows with different values
C14_Witness ==
    /\ \A s \in Sessions : SubmitSucceeded(s)
    /\ failures = 0
    /\ source_at_begin["s1"] = source_at_begin["s2"]
    /\ \E a \in written["s1"], b \in written["s2"] :
          /\ SameKey(target[a], target[b])
          /\ target[a].VAL_OLD = target[b].VAL_OLD
          /\ target[a].VAL_NEW # target[b].VAL_NEW
          /\ \E m \in 1..Len(source), n \in 1..Len(source) :
                /\ IsActive(source[m]) /\ IsActive(source[n])
                /\ SameKey(source[m], target[a]) /\ SameKey(source[n], target[a])
                /\ source[m].VAL = target[a].VAL_NEW
                /\ source[n].VAL = target[b].VAL_NEW

----------------------------------------------------------------------------
(* C15 *)

SourceWrites == {"INSERT source", "UPDATE source"}

\* the place of a statement in the order Recorder, source insert, demote update
StatementRank(x) ==
    CASE x = "SELECT target columns" -> 1
      [] x = "INSERT target" -> 2
      [] x = "SELECT source columns" -> 3
      [] x = "INSERT source" -> 4
      [] x = "UPDATE source" -> 5

\* C15 (as claimed): within every submit (under a configuration without error)
\* a source-table write is sent only when every changed row of the batch has
\* its override record written, and the demote update is sent only after the
\* insert of the new Active rows.
C15_RecorderThenInsertThenDemote ==
    \A s \in Sessions :
        ~ConfigurationError =>
            /\ (\E n \in 1..Len(log[s]) : log[s][n] \in SourceWrites) =>
                   /\ pc[s] # "detect"
                   /\ Cardinality(written[s]) = Len(changes_df[s])
            /\ \A n \in 1..Len(log[s]) :
                   log[s][n] = "UPDATE source" =>
                       \E k \in 1..(n - 1) : log[s][k] = "INSERT source"

\* the order of the statements that are sent: the Recorder's statements, then
\* the source insert, then the demote update, and none before the Change
\* Detector has run
C15_StatementOrder ==
    \A s \in Sessions :
        /\ pc[s] = "detect" => log[s] = <<>>
        /\ \A n \in 1..Len(log[s]), k \in 1..Len(log[s]) :
               k < n => \/ StatementRank(log[s][k]) < StatementRank(log[s][n])
                        \/ log[s][k] = "INSERT target" /\ log[s][n] = "INSERT target"

----------------------------------------------------------------------------
(* C16 *)

\* C16 (as claimed): the join condition of the two Mutator statements holds of
\* an override record and a source row exactly when their joining-key columns
\* are null-safe equal: NULL with NULL only, a string with the same string only
\* (under a configuration without error).
C16_JoinIsNullSafeEquality ==
    ~ConfigurationError =>
        \A i \in 1..Len(source), j \in 1..Len(target) :
            JoinCondition(source[i], target[j]) <=> SameKey(source[i], target[j])

----------------------------------------------------------------------------
(* C17 *)

\* no Active source row holds the OLD value of an override record of its key
NoActiveRowHoldsAnOld ==
    \A i \in 1..Len(source), j \in 1..Len(target) :
        (IsActive(source[i]) /\ SameKey(source[i], target[j])) =>
            source[i].VAL # target[j].VAL_OLD

\* the two Mutator statements, run now, would insert no row and change no flag
MutatorIsNoOp ==
    /\ InsertedSourceRows(source, target) = <<>>
    /\ UpdatedSource(source, target) = source

\* C17: after a submit that ran to its end with no statement failing, no Active
\* source row holds the OLD value of an override record with the same natural
\* key, and running the source insert and the demote update again, with no new
\* override record, leaves the source table as it is.
C17_MutatorIdempotent ==
    \A s \in Sessions :
        SubmitSucceeded(s) => (NoActiveRowHoldsAnOld /\ MutatorIsNoOp)

\* a submit that recorded an override has ended with no statement failing, and
\* the key has an Active row holding NEW and a row 'D' holding OLD
C17_Witness ==
    \E s \in Sessions :
        /\ SubmitSucceeded(s)
        /\ \E a \in written[s], i \in 1..Len(source), k \in 1..Len(source) :
              /\ IsActive(source[i]) /\ SameKey(source[i], target[a])
              /\ source[i].VAL = target[a].VAL_NEW
              /\ ~IsActive(source[k]) /\ SameKey(source[k], target[a])
              /\ source[k].VAL = target[a].VAL_OLD

====
